---- MODULE Spec2Model ----
(***************************************************************************)
(* Model of the telemetry CSV analyzer (src/src/analyze.py).               *)
(*                                                                         *)
(* One run of main() is a straight-line pipeline: check the input file,    *)
(* load_csv, validate_columns, coerce_numeric, build_speed_stats,          *)
(* get_warnings, get_threshold_breaches, numeric_summary_table,            *)
(* write_report.  Each step is one action; `pc` is main's position.        *)
(*                                                                         *)
(* Representation                                                          *)
(*   - a text whose characters the code inspects (a numeric field, an      *)
(*     event type, a description) is a sequence of one-character strings;  *)
(*   - a missing cell (pandas NaN) is the empty sequence <<>>: read_csv    *)
(*     turns an empty field into NaN, so the two are the same cell;        *)
(*   - a coerced number is the one-element sequence <<v>>, v in hundredths *)
(*     (Scale), so that round(x, 2) is a rounding to an integer;           *)
(*   - a DataFrame is [columns |-> sequence of names, rows |-> sequence of *)
(*     functions from column name to cell]; the row index is the position; *)
(*   - the report is the sequence of lines handed to "\n".join; a line is  *)
(*     [kind, text, cells]; the fixed-width padding of a table row is      *)
(*     layout only and is not modelled.                                    *)
(***************************************************************************)
EXTENDS Integers, Sequences, FiniteSets, TLC

(***************************************************************************)
(* Generic helpers                                                         *)
(***************************************************************************)
Range(s) == {s[i] : i \in DOMAIN s}

IndexOf(s, x) == CHOOSE i \in DOMAIN s : s[i] = x

Reverse(s) == [i \in 1..Len(s) |-> s[Len(s) + 1 - i]]

RECURSIVE SeqSum(_)
SeqSum(s) == IF s = <<>> THEN 0 ELSE Head(s) + SeqSum(Tail(s))

RECURSIVE SeqMax(_)
SeqMax(s) ==
    IF Len(s) = 1 THEN s[1]
    ELSE LET m == SeqMax(Tail(s)) IN IF s[1] > m THEN s[1] ELSE m

RECURSIVE SeqMin(_)
SeqMin(s) ==
    IF Len(s) = 1 THEN s[1]
    ELSE LET m == SeqMin(Tail(s)) IN IF s[1] < m THEN s[1] ELSE m

(***************************************************************************)
(* Static configuration                                                    *)
(***************************************************************************)
EXPECTED_COLUMNS ==
    << "timestamp", "speed_kmh", "throttle_pct", "brake_pct", "regen_brake",
       "motor_rpm", "battery_voltage", "battery_current", "battery_soc_pct",
       "battery_temp_c", "motor_temp_c", "inverter_temp_c", "cabin_temp_c",
       "odometer_km", "power_kw", "energy_used_kw", "event_type",
       "event_description" >>

COLUMN_ALIASES == [k \in {"event_descirption"} |-> "event_description"]

\* Two decimal places: every number of the model is an integer number of
\* hundredths.
Scale == 100

\* The dict of dicts, in insertion order; limit values in hundredths.
THRESHOLDS ==
    << [col |-> "speed_kmh",       limits |-> << [type |-> "max", value |-> 120 * Scale] >>],
       [col |-> "battery_temp_c",  limits |-> << [type |-> "max", value |-> 50 * Scale] >>],
       [col |-> "motor_temp_c",    limits |-> << [type |-> "max", value |-> 90 * Scale] >>],
       [col |-> "inverter_temp_c", limits |-> << [type |-> "max", value |-> 75 * Scale] >>],
       [col |-> "battery_soc_pct", limits |-> << [type |-> "min", value |-> 15 * Scale] >>],
       [col |-> "cabin_temp_c",    limits |-> << [type |-> "max", value |-> 40 * Scale],
                                                 [type |-> "min", value |-> 5 * Scale] >>] >>

NUMERIC_COLUMNS ==
    << "speed_kmh", "throttle_pct", "brake_pct", "regen_brake", "motor_rpm",
       "battery_voltage", "battery_current", "battery_soc_pct",
       "battery_temp_c", "motor_temp_c", "inverter_temp_c", "cabin_temp_c",
       "odometer_km", "power_kw", "energy_used_kw" >>

(***************************************************************************)
(* pandas primitives used by the code                                      *)
(***************************************************************************)
NaN == <<>>

IsNaN(cell) == cell = NaN

Digits == {"0", "1", "2", "3", "4", "5", "6", "7", "8", "9"}

DigitVal(c) ==
    CASE c = "0" -> 0 [] c = "1" -> 1 [] c = "2" -> 2 [] c = "3" -> 3
      [] c = "4" -> 4 [] c = "5" -> 5 [] c = "6" -> 6 [] c = "7" -> 7
      [] c = "8" -> 8 [] c = "9" -> 9

RECURSIVE DigitsVal(_)
DigitsVal(s) ==
    IF s = <<>> THEN 0
    ELSE 10 * DigitsVal(SubSeq(s, 1, Len(s) - 1)) + DigitVal(s[Len(s)])

AllDigits(s) == s /= <<>> /\ \A i \in DOMAIN s : s[i] \in Digits

\* The magnitude of an unsigned decimal text, in hundredths, or -1 when the text
\* is not a number.  Texts of the grammar digits+ [ "." digit{1,2} ] are
\* covered exactly; every field of the input pools is either of this grammar or
\* not a number for pandas either.
UnsignedVal(s) ==
    LET dots == {i \in DOMAIN s : s[i] = "."} IN
    IF dots = {} THEN
        IF AllDigits(s) THEN DigitsVal(s) * Scale ELSE -1
    ELSE IF Cardinality(dots) > 1 THEN -1
    ELSE
        LET d    == CHOOSE i \in dots : TRUE
            ip   == SubSeq(s, 1, d - 1)
            fp   == SubSeq(s, d + 1, Len(s))
        IN  IF AllDigits(ip) /\ AllDigits(fp) /\ Len(fp) <= 2
            THEN DigitsVal(ip) * Scale
                 + (IF Len(fp) = 1 THEN 10 * DigitsVal(fp) ELSE DigitsVal(fp))
            ELSE -1

\* pd.to_numeric(..., errors="coerce") on one cell: the number, or NaN when the
\* cell is missing or its text is not a number.
to_numeric(cell) ==
    IF cell = <<>> THEN NaN
    ELSE
        LET neg  == cell[1] = "-"
            body == IF neg THEN Tail(cell) ELSE cell
            m    == UnsignedVal(body)
        IN  IF m < 0 THEN NaN ELSE << IF neg THEN 0 - m ELSE m >>

UpperChar(c) ==
    CASE c = "a" -> "A" [] c = "b" -> "B" [] c = "d" -> "D" [] c = "e" -> "E"
      [] c = "f" -> "F" [] c = "g" -> "G" [] c = "i" -> "I" [] c = "k" -> "K"
      [] c = "l" -> "L" [] c = "n" -> "N" [] c = "o" -> "O" [] c = "r" -> "R"
      [] c = "s" -> "S" [] c = "t" -> "T" [] c = "w" -> "W"
      [] OTHER -> c

\* Series.astype(str): NaN becomes the text "nan".
astype_str(cell) == IF IsNaN(cell) THEN << "n", "a", "n" >> ELSE cell

\* Series.str.upper
str_upper(s) == [i \in DOMAIN s |-> UpperChar(s[i])]

WARNING == << "W", "A", "R", "N", "I", "N", "G" >>

\* round(x, 2) of the rational num/den hundredths: to the nearest integer
\* number of hundredths, a tie to the even one.
Round2(num, den) ==
    LET q == num \div den
        r == num % den
    IN  IF 2 * r < den THEN q
        ELSE IF 2 * r > den THEN q + 1
        ELSE IF q % 2 = 0 THEN q ELSE q + 1

\* df[col].dropna(): the row indices kept, ascending.
RECURSIVE dropna_from(_, _, _)
dropna_from(df, col, i) ==
    IF i > Len(df.rows) THEN <<>>
    ELSE (IF IsNaN(df.rows[i][col]) THEN <<>> ELSE << i >>)
         \o dropna_from(df, col, i + 1)

\* A variant of dropna that drops a row when any numeric cell of it is missing.
dropna_complete_rows(df, col) ==
    SelectSeq([i \in 1..Len(df.rows) |-> i],
              LAMBDA i : \A c \in Range(NUMERIC_COLUMNS) \cap Range(df.columns) :
                            ~IsNaN(df.rows[i][c]))

dropna(df, col) == dropna_from(df, col, 1)

\* The values of a dropna()'d series, in index order.
SeriesValues(df, col, idx) == [k \in DOMAIN idx |-> df.rows[idx[k]][col][1]]

series_mean(vals) == Round2(SeqSum(vals), Len(vals))

(***************************************************************************)
(* load_csv, validate_columns, coerce_numeric                              *)
(***************************************************************************)
\* pd.read_csv on a parseable file: the header row names the columns, every
\* other record is a row, an empty field is NaN.
read_csv(file) == [columns |-> file.header, rows |-> file.rows]

Canonical(rename, c) == IF c \in rename THEN COLUMN_ALIASES[c] ELSE c

\* DataFrame.rename(columns=rename): the labels change, the cells stay.
df_rename(df, rename) ==
    LET old(c) == IF c \in Range(df.columns) THEN c
                  ELSE CHOOSE k \in rename : COLUMN_ALIASES[k] = c
        cols   == [i \in DOMAIN df.columns |-> Canonical(rename, df.columns[i])]
    IN  [columns |-> cols,
         rows    |-> [i \in DOMAIN df.rows |->
                        [c \in Range(cols) |-> df.rows[i][old(c)]]]]

\* A variant of load_csv without the alias normalisation.
load_csv_no_rename(file) == read_csv(file)

load_csv(file) ==
    LET df     == read_csv(file)
        rename == {k \in DOMAIN COLUMN_ALIASES : k \in Range(df.columns)}
    IN  IF rename /= {} THEN df_rename(df, rename) ELSE df

\* A variant of missing_columns that stops at the first missing column.
missing_columns_first(df) ==
    LET m == SelectSeq(EXPECTED_COLUMNS, LAMBDA c : c \notin Range(df.columns))
    IN  IF m = <<>> THEN <<>> ELSE << m[1] >>

\* The list `missing` of validate_columns, in EXPECTED_COLUMNS order.
missing_columns(df) ==
    SelectSeq(EXPECTED_COLUMNS, LAMBDA c : c \notin Range(df.columns))

\* The ValueError validate_columns raises: its text names `missing` and
\* list(df.columns).
ValidationError(df) ==
    [error |-> "CSV missing columns", missing |-> missing_columns(df),
     found |-> df.columns]

coerce_numeric(df) ==
    [columns |-> df.columns,
     rows    |-> [i \in DOMAIN df.rows |->
                    [c \in DOMAIN df.rows[i] |->
                        IF c \in Range(NUMERIC_COLUMNS)
                        THEN to_numeric(df.rows[i][c])
                        ELSE df.rows[i][c]]]]

(***************************************************************************)
(* build_speed_stats, numeric_summary_table                                *)
(***************************************************************************)
None == <<>>

build_speed_stats(df) ==
    LET s    == dropna(df, "speed_kmh")
        vals == SeriesValues(df, "speed_kmh", s)
    IN  IF s = <<>>
        THEN [mean_kmh |-> None, max_kmh |-> None, min_kmh |-> None, count |-> 0]
        ELSE [mean_kmh |-> << series_mean(vals) >>,
              max_kmh  |-> << Round2(SeqMax(vals), 1) >>,
              min_kmh  |-> << Round2(SeqMin(vals), 1) >>,
              count    |-> Len(s)]

\* The loop of numeric_summary_table over the column list `cols`, from its
\* k-th entry on.
RECURSIVE summary_rows(_, _, _)
summary_rows(df, cols, k) ==
    IF k > Len(cols) THEN <<>>
    ELSE
        LET col == cols[k] IN
        IF col \notin Range(df.columns) THEN summary_rows(df, cols, k + 1)
        ELSE
            LET s    == dropna(df, col)
                vals == SeriesValues(df, col, s)
            IN  IF s = <<>> THEN summary_rows(df, cols, k + 1)
                ELSE << [column |-> col,
                         mean   |-> series_mean(vals),
                         max    |-> Round2(SeqMax(vals), 1),
                         min    |-> Round2(SeqMin(vals), 1)] >>
                     \o summary_rows(df, cols, k + 1)

\* A variant of numeric_summary_table that follows the input's column order.
numeric_summary_table_input_order(df) ==
    summary_rows(df, SelectSeq(df.columns, LAMBDA c : c \in Range(NUMERIC_COLUMNS)), 1)

numeric_summary_table(df) == summary_rows(df, NUMERIC_COLUMNS, 1)

(***************************************************************************)
(* get_warnings                                                            *)
(***************************************************************************)
WarningTriple(row) ==
    [timestamp         |-> row["timestamp"],
     event_type        |-> row["event_type"],
     event_description |-> row["event_description"]]

\* mask = df["event_type"].astype(str).str.upper() == "WARNING"
warning_mask(row) == str_upper(astype_str(row["event_type"])) = WARNING

\* A variant of drop_duplicates that keeps the last of equal rows.
drop_duplicates_keep_last(s) ==
    LET keep == {i \in DOMAIN s : \A j \in (i + 1)..Len(s) : s[j] /= s[i]}
        RECURSIVE kept(_)
        kept(i) == IF i > Len(s) THEN <<>>
                   ELSE (IF i \in keep THEN << s[i] >> ELSE <<>>) \o kept(i + 1)
    IN  kept(1)

\* DataFrame.drop_duplicates(): a row goes when an earlier row equals it.
drop_duplicates(s) ==
    LET keep == {i \in DOMAIN s : \A j \in 1..(i - 1) : s[j] /= s[i]}
        RECURSIVE kept(_)
        kept(i) == IF i > Len(s) THEN <<>>
                   ELSE (IF i \in keep THEN << s[i] >> ELSE <<>>) \o kept(i + 1)
    IN  kept(1)

get_warnings(df) ==
    IF "event_type" \notin Range(df.columns) THEN <<>>
    ELSE
        LET RECURSIVE masked(_)
            masked(i) ==
                IF i > Len(df.rows) THEN <<>>
                ELSE (IF warning_mask(df.rows[i])
                      THEN << WarningTriple(df.rows[i]) >> ELSE <<>>)
                     \o masked(i + 1)
        IN  drop_duplicates(masked(1))

(***************************************************************************)
(* get_threshold_breaches                                                  *)
(***************************************************************************)
\* A variant of over_limit that counts a value equal to the bound as beyond it.
over_limit_inclusive(limit_type, value, limit_value) ==
    IF limit_type = "max" THEN value >= limit_value ELSE value <= limit_value

\* over = series > limit_value  (max)  /  series < limit_value  (min)
over_limit(limit_type, value, limit_value) ==
    IF limit_type = "max" THEN value > limit_value ELSE value < limit_value

\* for idx in series.index[over]: breaches.append({...})
RECURSIVE breaches_of_limit(_, _, _, _, _)
breaches_of_limit(df, col, series, limit, k) ==
    IF k > Len(series) THEN <<>>
    ELSE
        LET idx   == series[k]
            value == df.rows[idx][col][1]
        IN  (IF over_limit(limit.type, value, limit.value)
             THEN << [timestamp   |-> df.rows[idx]["timestamp"],
                      column      |-> col,
                      value       |-> value,
                      limit_type  |-> limit.type,
                      limit_value |-> limit.value] >>
             ELSE <<>>)
            \o breaches_of_limit(df, col, series, limit, k + 1)

\* for limit_type, limit_value in limits.items(): ...
RECURSIVE breaches_of_column(_, _, _, _, _)
breaches_of_column(df, col, series, limits, l) ==
    IF l > Len(limits) THEN <<>>
    ELSE breaches_of_limit(df, col, series, limits[l], 1)
         \o breaches_of_column(df, col, series, limits, l + 1)

\* for col, limits in THRESHOLDS.items(): ...
RECURSIVE breaches_from(_, _, _)
breaches_from(df, thresholds, t) ==
    IF t > Len(thresholds) THEN <<>>
    ELSE
        LET col == thresholds[t].col IN
        IF col \notin Range(df.columns) THEN breaches_from(df, thresholds, t + 1)
        ELSE
            LET series == dropna(df, col) IN
            IF series = <<>> THEN breaches_from(df, thresholds, t + 1)
            ELSE breaches_of_column(df, col, series, thresholds[t].limits, 1)
                 \o breaches_from(df, thresholds, t + 1)

\* A variant of get_threshold_breaches that scans row by row.
RECURSIVE breaches_by_row(_, _)
breaches_by_row(df, i) ==
    IF i > Len(df.rows) THEN <<>>
    ELSE breaches_from([df EXCEPT !.rows = << df.rows[i] >>], THRESHOLDS, 1)
         \o breaches_by_row(df, i + 1)

get_threshold_breaches_by_row(df) == breaches_by_row(df, 1)

get_threshold_breaches(df) == breaches_from(df, THRESHOLDS, 1)

(***************************************************************************)
(* write_report                                                            *)
(***************************************************************************)
Text(s) == [kind |-> "text", text |-> s, cells |-> <<>>]

Blank == [kind |-> "text", text |-> "", cells |-> <<>>]

TableRow(cells) == [kind |-> "row", text |-> "", cells |-> cells]

H1 == "## 1. Speed statistics"
H2 == "## 2. Numeric summary (mean, max, min)"
H3 == "## 3. Warnings (event_type = WARNING)"
H4 == "## 4. Threshold breaches (with timestamp)"

NoSpeed    == "No valid speed data."
NoSummary  == "No numeric summary available."
NoWarnings == "No WARNING events found."
NoBreaches == "No threshold breaches detected."

\* str(desc).replace("|", "\\|")
RECURSIVE escape_pipes(_)
escape_pipes(s) ==
    IF s = <<>> THEN <<>>
    ELSE (IF Head(s) = "|" THEN << "\\", "|" >> ELSE << Head(s) >>)
         \o escape_pipes(Tail(s))

speed_section(speed_stats) ==
    IF speed_stats.count = 0 THEN << Text(NoSpeed) >>
    ELSE << [kind |-> "bullet", text |-> "Mean speed", cells |-> speed_stats.mean_kmh],
            [kind |-> "bullet", text |-> "Max speed",  cells |-> speed_stats.max_kmh],
            [kind |-> "bullet", text |-> "Min speed",  cells |-> speed_stats.min_kmh],
            [kind |-> "bullet", text |-> "Samples",    cells |-> << speed_stats.count >>],
            Blank >>

summary_section(numeric_summary) ==
    IF numeric_summary = <<>> THEN << Text(NoSummary) >>
    ELSE << Text("| Column | Mean | Max | Min |"), Text("|---|---|---|---|") >>
         \o [i \in DOMAIN numeric_summary |->
                TableRow(<< numeric_summary[i].column, numeric_summary[i].mean,
                            numeric_summary[i].max, numeric_summary[i].min >>)]
         \o << Blank >>

\* A variant of warnings_section that needs two records to show the table.
warnings_section_off_by_one(warnings_df) ==
    IF Len(warnings_df) <= 1 THEN << Text(NoWarnings) >>
    ELSE << Text("| Timestamp | Event description |"), Text("|---|---|") >>
         \o [i \in DOMAIN warnings_df |->
                TableRow(<< warnings_df[i].timestamp,
                            escape_pipes(astype_str(warnings_df[i].event_description)) >>)]
         \o << Blank >>

warnings_section(warnings_df) ==
    IF warnings_df = <<>> THEN << Text(NoWarnings) >>
    ELSE << Text("| Timestamp | Event description |"), Text("|---|---|") >>
         \o [i \in DOMAIN warnings_df |->
                TableRow(<< warnings_df[i].timestamp,
                            escape_pipes(astype_str(warnings_df[i].event_description)) >>)]
         \o << Blank >>

breaches_section(breaches) ==
    IF breaches = <<>> THEN << Text(NoBreaches) >>
    ELSE << Text("| Timestamp | Column | Value | Limit (max/min) |"),
            Text("|---|---|---|---|") >>
         \o [i \in DOMAIN breaches |->
                TableRow(<< breaches[i].timestamp, breaches[i].column,
                            Round2(breaches[i].value, 1),
                            breaches[i].limit_type, breaches[i].limit_value >>)]
         \o << Blank >>

\* A variant of write_report that puts the Warnings heading with the table.
write_report_heading_with_table(speed_stats, warnings_df, breaches, numeric_summary) ==
    << Text("# Telemetry Analysis Report"), Blank, Text(H1), Blank >>
    \o speed_section(speed_stats)
    \o << Text(H2), Blank >>
    \o summary_section(numeric_summary)
    \o (IF warnings_df = <<>> THEN <<>> ELSE << Text(H3), Blank >>)
    \o warnings_section(warnings_df)
    \o << Text(H4), Blank,
          Text("When a value exceeds the configured max or goes below the configured min, the timestamp is recorded below."),
          Blank >>
    \o breaches_section(breaches)

\* The list `lines` that write_report joins and writes to out_path.
write_report(speed_stats, warnings_df, breaches, numeric_summary) ==
    << Text("# Telemetry Analysis Report"), Blank, Text(H1), Blank >>
    \o speed_section(speed_stats)
    \o << Text(H2), Blank >>
    \o summary_section(numeric_summary)
    \o << Text(H3), Blank >>
    \o warnings_section(warnings_df)
    \o << Text(H4), Blank,
          Text("When a value exceeds the configured max or goes below the configured min, the timestamp is recorded below."),
          Blank >>
    \o breaches_section(breaches)

(***************************************************************************)
(* Input pools.  An input is the file at input_csv and what out_path holds *)
(* before the run.  The files are bounded families of CSV files: one whose *)
(* header lacks required columns, one whose header is complete (in either  *)
(* spelling, in either order, or with one more column), one that varies    *)
(* the event columns, two that vary the numeric columns; and a missing and *)
(* an unreadable file.                                                     *)
(*                                                                         *)
(* No pool lets the mean of a column lie exactly between two hundredths    *)
(* (where binary floating point, which is not modelled, decides what       *)
(* round() returns): decimals occur only in columns of at most three       *)
(* values, or in columns whose values are all equal.                       *)
(***************************************************************************)
MaxMissing    == 2
MaxSchemaRows == 2
MaxWarnRows   == 3
MaxNumRows    == 2

Stamp(i) == << "T1", "T2", "T3", "T4", "T5" >>[i]

\* A nominal telemetry sample: every value inside its limits, no warning.
Nominal ==
    ("timestamp" :> "T0") @@
    ("speed_kmh" :> << "1", "0", "0" >>) @@
    ("throttle_pct" :> << "3", "0" >>) @@
    ("brake_pct" :> << "0" >>) @@
    ("regen_brake" :> << "1" >>) @@
    ("motor_rpm" :> << "3", "0", "0", "0" >>) @@
    ("battery_voltage" :> << "3", "8", "0", ".", "5" >>) @@
    ("battery_current" :> << "-", "1", "2" >>) @@
    ("battery_soc_pct" :> << "8", "0" >>) @@
    ("battery_temp_c" :> << "3", "0" >>) @@
    ("motor_temp_c" :> << "6", "0" >>) @@
    ("inverter_temp_c" :> << "5", "0" >>) @@
    ("cabin_temp_c" :> << "2", "2" >>) @@
    ("odometer_km" :> << "1", "5", "0", "0" >>) @@
    ("power_kw" :> << "2", "5" >>) @@
    ("energy_used_kw" :> << "3" >>) @@
    ("event_type" :> << "I", "N", "F", "O" >>) @@
    ("event_description" :> << "o", "k" >>)

Row(ts, over) ==
    [c \in Range(EXPECTED_COLUMNS) |->
        IF c = "timestamp" THEN ts
        ELSE IF c \in DOMAIN over THEN over[c] ELSE Nominal[c]]

\* The timestamps of n rows: all equal, all distinct, or alternating.
StampPatterns(n, kinds) ==
    {[i \in 1..n |-> IF k = "same" THEN Stamp(1)
                     ELSE IF k = "distinct" THEN Stamp(i)
                     ELSE Stamp(((i - 1) % 2) + 1)] : k \in kinds}

\* All tables of at most n rows whose rows vary as `pool` says.
Tables(pool, n, kinds) ==
    UNION {{[i \in 1..k |-> Row(ts[i], f[i])] :
                f \in [1..k -> pool], ts \in StampPatterns(k, kinds)} : k \in 0..n}

WarningLower == << "w", "a", "r", "n", "i", "n", "g" >>

\* A speeding sample with a lower-case warning; a record of empty fields; a
\* warning sample with no speed reading.
SchemaPool ==
    { [event_type |-> WarningLower, event_description |-> << "a", "|", "b" >>,
       speed_kmh |-> << "1", "3", "0" >>, cabin_temp_c |-> << "3" >>],
      [c \in Range(NUMERIC_COLUMNS) \cup {"event_type", "event_description"} |-> NaN],
      [event_type |-> WARNING, speed_kmh |-> << "-" >>,
       motor_temp_c |-> << "9", "0", ".", "5" >>] }

WarnPool ==
    {[event_type |-> e, event_description |-> d] :
        e \in {WARNING, << "W", "a", "r", "n", "i", "n", "g" >>,
               << "W", "A", "R", "N", "I", "N", "G", "S" >>},
        d \in {<< "l", "o", "w" >>, << "a", "|", "b" >>}}

NumPoolA ==
    {[speed_kmh |-> s, cabin_temp_c |-> c, battery_soc_pct |-> b] :
        s \in {<< "1", "2", "0" >>, << "1", "2", "0", ".", "5" >>, << "a", "b", "c" >>},
        c \in {<< "3" >>, << "4", "1" >>},
        b \in {<< "1", "5" >>, << "1", "4" >>}}

NumPoolB ==
    {[battery_temp_c |-> t, battery_soc_pct |-> b, throttle_pct |-> h] :
        t \in {<< "5", "0" >>, << "5", "1" >>},
        b \in {<< "1", "4" >>, NaN},
        h \in {<< "3", "0" >>, << "o", "f", "f" >>}}

Typo == "event_descirption"

WithTypo(h) == [i \in DOMAIN h |-> IF h[i] = "event_description" THEN Typo ELSE h[i]]

Without(h, D) == SelectSeq(h, LAMBDA c : c \notin D)

\* EXPECTED_COLUMNS less one to MaxMissing columns, the description column
\* spelled right or with the known typo.
IncompleteHeaders ==
    LET dropped == {Without(EXPECTED_COLUMNS, D) :
                        D \in {D \in SUBSET Range(EXPECTED_COLUMNS) :
                                    Cardinality(D) \in 1..MaxMissing}}
    IN  dropped \cup {WithTypo(h) : h \in dropped}

\* Every required column, in either spelling and either order, or with one
\* more column.
CompleteHeaders ==
    {EXPECTED_COLUMNS, WithTypo(EXPECTED_COLUMNS), Reverse(EXPECTED_COLUMNS),
     WithTypo(Reverse(EXPECTED_COLUMNS)), EXPECTED_COLUMNS \o << "gps_fix" >>}

\* The file with header h whose records hold the samples `table`: the field
\* under a header is the sample's value for that column.
Csv(h, table) ==
    LET field(r, c) == IF c = Typo THEN r["event_description"]
                       ELSE IF c \in DOMAIN r THEN r[c] ELSE << "1" >>
    IN  [exists |-> TRUE, parseable |-> TRUE, header |-> h,
         rows |-> [i \in DOMAIN table |-> [c \in Range(h) |-> field(table[i], c)]]]

NoFile == <<>>

StaleReport == << Text("# Telemetry Analysis Report"), Text("stale") >>

OneSample ==
    << Row(Stamp(1), [event_type |-> WARNING, speed_kmh |-> << "1", "3", "0" >>]) >>

Inputs ==
    {[file |-> Csv(h, OneSample), out |-> o] :
        h \in IncompleteHeaders, o \in {NoFile, StaleReport}}
    \cup {[file |-> Csv(h, t), out |-> o] :
            h \in CompleteHeaders,
            t \in Tables(SchemaPool, MaxSchemaRows, {"distinct"}),
            o \in {NoFile, StaleReport}}
    \cup {[file |-> Csv(EXPECTED_COLUMNS, t), out |-> NoFile] :
            t \in Tables(WarnPool, MaxWarnRows, {"same", "alternate"})}
    \cup {[file |-> Csv(EXPECTED_COLUMNS, t), out |-> NoFile] :
            t \in Tables(NumPoolA, MaxNumRows, {"same", "distinct"})
                  \cup Tables(NumPoolB, MaxNumRows, {"same", "distinct"})}
    \cup {[file |-> [exists |-> e, parseable |-> FALSE, header |-> <<>>, rows |-> <<>>],
           out |-> o] : e \in BOOLEAN, o \in {NoFile, StaleReport}}

(***************************************************************************)
(* main                                                                    *)
(***************************************************************************)
VARIABLES
    file,             \* the file at args.input_csv
    out_file,         \* what out_path holds: NoFile, or the lines written
    pc,               \* main's position
    df,               \* main's local df
    speed_stats,      \* main's local speed_stats
    warnings_df,      \* main's local warnings_df
    breaches,         \* main's local breaches
    numeric_summary,  \* main's local numeric_summary
    calls,            \* the functions main has called so far, in order
    writes,           \* the number of out_path.write_text calls so far
    stderr,           \* what the run printed on sys.stderr
    stdout,           \* what the run printed on sys.stdout
    exit_code         \* <<>> while main runs, << its return value >> after

vars == << file, out_file, pc, df, speed_stats, warnings_df, breaches,
           numeric_summary, calls, writes, stderr, stdout, exit_code >>

locals == << df, speed_stats, warnings_df, breaches, numeric_summary >>

Diagnostic(text) == [error |-> text, missing |-> <<>>, found |-> <<>>]

\* validate_columns: << >> when it returns, << the ValueError >> when it raises.
validate_columns(d) ==
    IF missing_columns(d) /= <<>> THEN << ValidationError(d) >> ELSE <<>>

Init ==
    /\ \E in \in Inputs : file = in.file /\ out_file = in.out
    /\ pc = "check_input"
    /\ df = <<>>
    /\ speed_stats = <<>>
    /\ warnings_df = <<>>
    /\ breaches = <<>>
    /\ numeric_summary = <<>>
    /\ calls = <<>>
    /\ writes = 0
    /\ stderr = <<>>
    /\ stdout = <<>>
    /\ exit_code = <<>>

Return(code) == pc' = "done" /\ exit_code' = << code >>

\* A variant of MainCheckInput that returns 0 when the file is not found.
MainCheckInputReturnsZero ==
    /\ pc = "check_input"
    /\ \/ /\ ~file.exists
          /\ stderr' = Append(stderr, Diagnostic("Error: input file not found"))
          /\ Return(0)
       \/ /\ file.exists
          /\ pc' = "load"
          /\ UNCHANGED << stderr, exit_code >>
    /\ UNCHANGED << file, out_file, locals, calls, writes, stdout >>

\* if not args.input_csv.is_file(): ... return 1
MainCheckInput ==
    /\ pc = "check_input"
    /\ \/ /\ ~file.exists
          /\ stderr' = Append(stderr, Diagnostic("Error: input file not found"))
          /\ Return(1)
       \/ /\ file.exists
          /\ pc' = "load"
          /\ UNCHANGED << stderr, exit_code >>
    /\ UNCHANGED << file, out_file, locals, calls, writes, stdout >>

\* try: df = load_csv(args.input_csv)  except Exception: ... return 1
MainLoad ==
    /\ pc = "load"
    /\ calls' = Append(calls, "load_csv")
    /\ \/ /\ ~file.parseable
          /\ stderr' = Append(stderr, Diagnostic("Error reading CSV"))
          /\ Return(1)
          /\ UNCHANGED df
       \/ /\ file.parseable
          /\ df' = load_csv(file)
          /\ pc' = "validate"
          /\ UNCHANGED << stderr, exit_code >>
    /\ UNCHANGED << file, out_file, speed_stats, warnings_df, breaches,
                    numeric_summary, writes, stdout >>

\* try: validate_columns(df)  except ValueError as e: print(e); return 1
MainValidate ==
    /\ pc = "validate"
    /\ calls' = Append(calls, "validate_columns")
    /\ \/ /\ validate_columns(df) /= <<>>
          /\ stderr' = stderr \o validate_columns(df)
          /\ Return(1)
       \/ /\ validate_columns(df) = <<>>
          /\ pc' = "coerce"
          /\ UNCHANGED << stderr, exit_code >>
    /\ UNCHANGED << file, out_file, locals, writes, stdout >>

MainCoerce ==
    /\ pc = "coerce"
    /\ calls' = Append(calls, "coerce_numeric")
    /\ df' = coerce_numeric(df)
    /\ pc' = "speed_stats"
    /\ UNCHANGED << file, out_file, speed_stats, warnings_df, breaches,
                    numeric_summary, writes, stderr, stdout, exit_code >>

MainSpeedStats ==
    /\ pc = "speed_stats"
    /\ calls' = Append(calls, "build_speed_stats")
    /\ speed_stats' = build_speed_stats(df)
    /\ pc' = "warnings"
    /\ UNCHANGED << file, out_file, df, warnings_df, breaches, numeric_summary,
                    writes, stderr, stdout, exit_code >>

MainWarnings ==
    /\ pc = "warnings"
    /\ calls' = Append(calls, "get_warnings")
    /\ warnings_df' = get_warnings(df)
    /\ pc' = "breaches"
    /\ UNCHANGED << file, out_file, df, speed_stats, breaches, numeric_summary,
                    writes, stderr, stdout, exit_code >>

MainBreaches ==
    /\ pc = "breaches"
    /\ calls' = Append(calls, "get_threshold_breaches")
    /\ breaches' = get_threshold_breaches(df)
    /\ pc' = "summary"
    /\ UNCHANGED << file, out_file, df, speed_stats, warnings_df,
                    numeric_summary, writes, stderr, stdout, exit_code >>

MainSummary ==
    /\ pc = "summary"
    /\ calls' = Append(calls, "numeric_summary_table")
    /\ numeric_summary' = numeric_summary_table(df)
    /\ pc' = "write"
    /\ UNCHANGED << file, out_file, df, speed_stats, warnings_df, breaches,
                    writes, stderr, stdout, exit_code >>

\* write_report(...); print("Report written to: ..."); return 0
MainWriteReport ==
    /\ pc = "write"
    /\ calls' = Append(calls, "write_report")
    /\ out_file' = write_report(speed_stats, warnings_df, breaches, numeric_summary)
    /\ writes' = writes + 1
    /\ stdout' = Append(stdout, "Report written to")
    /\ Return(0)
    /\ UNCHANGED << file, locals, stderr >>

Next ==
    \/ MainCheckInput
    \/ MainLoad
    \/ MainValidate
    \/ MainCoerce
    \/ MainSpeedStats
    \/ MainWarnings
    \/ MainBreaches
    \/ MainSummary
    \/ MainWriteReport

Spec == Init /\ [][Next]_vars

(***************************************************************************)
(* Vocabulary of the properties                                            *)
(***************************************************************************)
Called(f) == f \in Range(calls)

Succeeded == pc = "done" /\ exit_code = << 0 >>

Failed == pc = "done" /\ exit_code = << 1 >>

\* The required columns the file's header lacks, the known typo counted as
\* the column it stands for.
HeaderLacks ==
    {c \in Range(EXPECTED_COLUMNS) :
        /\ c \notin Range(file.header)
        /\ ~(c = "event_description" /\ Typo \in Range(file.header))}

\* The header as validate_columns finds it: the typo corrected.
HeaderFound ==
    [i \in DOMAIN file.header |->
        IF file.header[i] = Typo THEN "event_description" ELSE file.header[i]]

\* Every configured bound: (column, direction, value).
Bounds ==
    UNION {{[col |-> THRESHOLDS[t].col, type |-> THRESHOLDS[t].limits[l].type,
             value |-> THRESHOLDS[t].limits[l].value] :
                l \in DOMAIN THRESHOLDS[t].limits} : t \in DOMAIN THRESHOLDS}

\* Row i of table d violates bound b: its value is there and beyond the bound.
Violates(d, i, b) ==
    /\ b.col \in Range(d.columns)
    /\ d.rows[i][b.col] /= NaN
    /\ \/ b.type = "max" /\ d.rows[i][b.col][1] > b.value
       \/ b.type = "min" /\ d.rows[i][b.col][1] < b.value

Violations(d) ==
    {v \in (DOMAIN d.rows) \X Bounds : Violates(d, v[1], v[2])}

\* The Breach Record of row i and bound b.
BreachRecord(d, i, b) ==
    [timestamp |-> d.rows[i]["timestamp"], column |-> b.col,
     value |-> d.rows[i][b.col][1], limit_type |-> b.type, limit_value |-> b.value]

Occurrences(s, x) == Cardinality({k \in DOMAIN s : s[k] = x})

\* The rows of table d that qualify as warnings.
Qualifying(d) ==
    {i \in DOMAIN d.rows : str_upper(astype_str(d.rows[i]["event_type"])) = WARNING}

Triple(d, i) ==
    [timestamp |-> d.rows[i]["timestamp"], event_type |-> d.rows[i]["event_type"],
     event_description |-> d.rows[i]["event_description"]]

\* The qualifying rows no earlier qualifying row equals.
FirstSeen(d) ==
    {i \in Qualifying(d) : \A j \in Qualifying(d) : j < i => Triple(d, j) /= Triple(d, i)}

\* The numeric columns of table d with at least one value.
HasValue(d, c) == \E i \in DOMAIN d.rows : d.rows[i][c] /= NaN

\* The report's section headings, in the order they appear.
SectionHeadings == << H1, H2, H3, H4 >>

HeadingsOf(report) ==
    LET hs == SelectSeq(report, LAMBDA ln : ln.kind = "text"
                                             /\ ln.text \in Range(SectionHeadings))
    IN  [i \in DOMAIN hs |-> hs[i].text]

WellSectioned(report) == HeadingsOf(report) = SectionHeadings

\* The lines of section n of a well-sectioned report.
Section(report, n) ==
    LET at(h) == CHOOSE i \in DOMAIN report :
                    report[i].kind = "text" /\ report[i].text = h
        from  == at(SectionHeadings[n]) + 1
        to    == IF n < Len(SectionHeadings) THEN at(SectionHeadings[n + 1]) - 1
                 ELSE Len(report)
    IN  SubSeq(report, from, to)

Shows(section, sentinel) ==
    \E i \in DOMAIN section : section[i].kind = "text" /\ section[i].text = sentinel

\* The cells of the table rows (or bullets) of a section, in order.
Entries(section) ==
    LET es == SelectSeq(section, LAMBDA ln : ln.kind \in {"row", "bullet"})
    IN  [i \in DOMAIN es |-> es[i].cells]

\* The file with one field replaced.
WithField(f, i, c, text) ==
    [f EXCEPT !.rows = [f.rows EXCEPT ![i] = [f.rows[i] EXCEPT ![c] = text]]]

\* The file with one record removed.
WithoutRecord(f, i) ==
    [f EXCEPT !.rows = SubSeq(f.rows, 1, i - 1) \o SubSeq(f.rows, i + 1, Len(f.rows))]

\* The file with the header typo spelled right.
Respelled(f) ==
    [f EXCEPT !.header = HeaderFound,
              !.rows = [i \in DOMAIN f.rows |->
                          [c \in Range(HeaderFound) |->
                              IF c = "event_description" /\ Typo \in DOMAIN f.rows[i]
                              THEN f.rows[i][Typo] ELSE f.rows[i][c]]]]

\* The summary row of column c, as a sequence of zero or one rows.
SummaryRow(summary, c) == SelectSeq(summary, LAMBDA r : r.column = c)

(***************************************************************************)
(* Properties                                                              *)
(***************************************************************************)

C2_MissingColumnsFail ==
    Called("validate_columns") =>
        IF HeaderLacks /= {}
        THEN /\ Failed
             /\ writes = 0
             /\ ~Called("write_report")
             /\ out_file \in {NoFile, StaleReport}
             /\ Len(stderr) = 1
             /\ Range(stderr[1].missing) = HeaderLacks
             /\ stderr[1].found = HeaderFound
        ELSE stderr = <<>> /\ ~Failed

C2_Witness ==
    /\ Failed
    /\ Called("validate_columns")
    /\ Cardinality(HeaderLacks) = 2
    /\ Typo \in Range(file.header)
    /\ out_file = StaleReport

PipelineCalls ==
    << "load_csv", "validate_columns", "coerce_numeric", "build_speed_stats",
       "get_warnings", "get_threshold_breaches", "numeric_summary_table",
       "write_report" >>

\* C3: the report is written at most once and only as the last step, after
\* load, validation, coercion and the four extractions; the run returns 0
\* exactly when the report was written, and returns 1 without writing on each
\* terminal failure (file not found, read failure, validation failure).
C3_ReportWrittenLast ==
    /\ writes = Occurrences(calls, "write_report")
    /\ writes <= 1
    /\ writes = 1 => calls = PipelineCalls /\ Succeeded
    /\ writes = 0 => out_file \in {NoFile, StaleReport}
    /\ pc = "done" =>
          /\ exit_code \in {<< 0 >>, << 1 >>}
          /\ exit_code = << 0 >> <=> writes = 1
          /\ (~file.exists \/ ~file.parseable \/ HeaderLacks /= {}) =>
                exit_code = << 1 >> /\ writes = 0 /\ Len(stderr) = 1

C3_Witness ==
    /\ pc = "done"
    /\ writes = 1
    /\ calls = PipelineCalls
    /\ file.rows /= <<>>

\* C4: get_warnings returns the rows whose event type, upper-cased, is exactly
\* WARNING, in row order, less every row whose (timestamp, event type,
\* description) equals that of an earlier qualifying row; the report's Warnings
\* section lists one row per record in that order; without an event_type column
\* the result is empty.
C4_Warnings ==
    /\ Called("get_warnings") =>
          /\ Len(warnings_df) = Cardinality(FirstSeen(df))
          /\ \A i \in FirstSeen(df) :
                warnings_df[Cardinality({j \in FirstSeen(df) : j <= i})] = Triple(df, i)
    /\ writes = 1 =>
          /\ WellSectioned(out_file)
          /\ warnings_df /= <<>> =>
                Entries(Section(out_file, 3))
                = [k \in DOMAIN warnings_df |->
                     << warnings_df[k].timestamp,
                        escape_pipes(astype_str(warnings_df[k].event_description)) >>]
    /\ (Called("load_csv") /\ file.parseable) =>
          get_warnings([columns |-> Without(df.columns, {"event_type"}),
                        rows |-> df.rows]) = <<>>

\* Three qualifying rows, the third equal to the first and the second not: two
\* records, the first row's and the second's.
C4_Witness ==
    /\ Succeeded
    /\ Len(df.rows) = 3
    /\ Qualifying(df) = {1, 2, 3}
    /\ Triple(df, 3) = Triple(df, 1)
    /\ Triple(df, 2) /= Triple(df, 1)
    /\ Len(warnings_df) = 2

ReportOf(d0) ==
    LET d == coerce_numeric(d0)
    IN  write_report(build_speed_stats(d), get_warnings(d),
                     get_threshold_breaches(d), numeric_summary_table(d))

\* C6: a CSV whose header spells event_description as event_descirption (all
\* other columns as required) passes validate_columns, and its warnings and
\* its Warnings section are those of the same CSV with the header spelled
\* right.
C6_AliasEquivalent ==
    (file.parseable /\ Typo \in Range(file.header) /\ HeaderLacks = {}) =>
        /\ Called("validate_columns") => stderr = <<>> /\ ~Failed
        /\ Called("get_warnings") =>
              warnings_df = get_warnings(coerce_numeric(read_csv(Respelled(file))))
        /\ writes = 1 =>
              /\ WellSectioned(out_file)
              /\ Section(out_file, 3) = Section(ReportOf(read_csv(Respelled(file))), 3)

C6_Witness ==
    /\ Succeeded
    /\ Typo \in Range(file.header)
    /\ Len(warnings_df) = 2

\* C7: a numeric cell that cannot be parsed becomes missing and touches its
\* own column only: the breaches, and the aggregates of every other column,
\* are those of the same file with a valid value within its limits in that
\* cell; the aggregates and breaches of its own column are those of the file
\* without that row.
C7_MissingCellIsolated ==
    Called("numeric_summary_table") =>
        \A i \in DOMAIN file.rows, c \in Range(NUMERIC_COLUMNS) :
            to_numeric(file.rows[i][c]) = NaN =>
                LET valid == coerce_numeric(load_csv(WithField(file, i, c, Nominal[c])))
                    gone  == coerce_numeric(load_csv(WithoutRecord(file, i)))
                    other(rs) == SelectSeq(rs, LAMBDA r : r.column /= c)
                    own(rs)   == SelectSeq(rs, LAMBDA r : r.column = c)
                IN  /\ df.rows[i][c] = NaN
                    /\ breaches = get_threshold_breaches(valid)
                    /\ other(numeric_summary) = other(numeric_summary_table(valid))
                    /\ c /= "speed_kmh" => speed_stats = build_speed_stats(valid)
                    /\ own(numeric_summary) = own(numeric_summary_table(gone))
                    /\ c = "speed_kmh" => speed_stats = build_speed_stats(gone)
                    /\ own(breaches) = own(get_threshold_breaches(gone))

\* A row of two with an unparseable speed and a cabin temperature over its
\* maximum: the cabin breach is recorded with that row's timestamp.
C7_Witness ==
    /\ Succeeded
    /\ Len(df.rows) = 2
    /\ df.rows[1]["timestamp"] /= df.rows[2]["timestamp"]
    /\ file.rows[1]["speed_kmh"] = << "a", "b", "c" >>
    /\ df.rows[1]["speed_kmh"] = NaN
    /\ df.rows[2]["speed_kmh"] /= NaN
    /\ \E k \in DOMAIN breaches :
          /\ breaches[k].column = "cabin_temp_c"
          /\ breaches[k].timestamp = df.rows[1]["timestamp"]

DeclaredThresholdOrder ==
    << "speed_kmh", "battery_temp_c", "motor_temp_c", "inverter_temp_c",
       "battery_soc_pct", "cabin_temp_c" >>

ColumnRank(c) == IndexOf(DeclaredThresholdOrder, c)

DirectionRank(t) == IF t = "max" THEN 1 ELSE 2

\* The rows of d that violate bound b, ascending, as (timestamp, value).
ViolatingRows(d, b) ==
    LET idx == SelectSeq([i \in 1..Len(d.rows) |-> i], LAMBDA i : Violates(d, i, b))
    IN  [k \in DOMAIN idx |-> << d.rows[idx[k]]["timestamp"], d.rows[idx[k]][b.col][1] >>]

\* C8: the breaches are ordered by column in Threshold Table order; within a
\* column by bound direction in declaration order (cabin_temp_c: max before
\* min); within a column and bound by ascending row.
C8_BreachOrder ==
    Called("get_threshold_breaches") =>
        /\ \A k, l \in DOMAIN breaches :
              k < l =>
                 \/ ColumnRank(breaches[k].column) < ColumnRank(breaches[l].column)
                 \/ /\ breaches[k].column = breaches[l].column
                    /\ DirectionRank(breaches[k].limit_type)
                       <= DirectionRank(breaches[l].limit_type)
        /\ \A b \in Bounds :
              LET of == SelectSeq(breaches, LAMBDA r : r.column = b.col
                                                       /\ r.limit_type = b.type)
              IN  [k \in DOMAIN of |-> << of[k].timestamp, of[k].value >>]
                  = ViolatingRows(df, b)

\* The first row is too cold; the second is too hot, too fast and low on
\* charge: speed, charge, cabin max (second row), cabin min (first row).
C8_Witness ==
    /\ Succeeded
    /\ Len(breaches) = 4
    /\ breaches[1].column = "speed_kmh" /\ breaches[1].timestamp = Stamp(2)
    /\ breaches[2].column = "battery_soc_pct" /\ breaches[2].timestamp = Stamp(2)
    /\ breaches[3].column = "cabin_temp_c" /\ breaches[3].limit_type = "max"
    /\ breaches[3].timestamp = Stamp(2)
    /\ breaches[4].column = "cabin_temp_c" /\ breaches[4].limit_type = "min"
    /\ breaches[4].timestamp = Stamp(1)

\* C9: numeric_summary_table emits one row for each numeric column with a
\* value and none for a column without, in the Numeric Column Set's declared
\* order whatever the order of the input's columns; the speed_kmh row is there
\* exactly when build_speed_stats counts a sample, with the same mean, max and
\* min.
C9_NumericSummary ==
    Called("numeric_summary_table") =>
        /\ [k \in DOMAIN numeric_summary |-> numeric_summary[k].column]
           = SelectSeq(NUMERIC_COLUMNS, LAMBDA c : HasValue(df, c))
        /\ SummaryRow(numeric_summary, "speed_kmh") /= <<>> <=> speed_stats.count > 0
        /\ speed_stats.count > 0 =>
              LET r == SummaryRow(numeric_summary, "speed_kmh")[1]
              IN  /\ speed_stats.mean_kmh = << r.mean >>
                  /\ speed_stats.max_kmh = << r.max >>
                  /\ speed_stats.min_kmh = << r.min >>

\* Columns in reverse order; no row has a speed, every other numeric column
\* has a value: fourteen rows, none for speed_kmh.
C9_Witness ==
    /\ Succeeded
    /\ file.header = Reverse(EXPECTED_COLUMNS)
    /\ speed_stats.count = 0
    /\ Len(df.rows) = 2
    /\ Len(numeric_summary) = Len(NUMERIC_COLUMNS) - 1

\* C10: each section shows its sentinel exactly when its input is empty and
\* its list or table otherwise; a header-only CSV passes validation, gives the
\* four sentinels and exit code 0.
C10_Sentinels ==
    /\ writes = 1 =>
          /\ WellSectioned(out_file)
          /\ Shows(Section(out_file, 1), NoSpeed) <=> ~HasValue(df, "speed_kmh")
          /\ ~HasValue(df, "speed_kmh") <=>
                speed_stats = [mean_kmh |-> None, max_kmh |-> None,
                               min_kmh |-> None, count |-> 0]
          /\ Shows(Section(out_file, 2), NoSummary) <=>
                \A c \in Range(NUMERIC_COLUMNS) : ~HasValue(df, c)
          /\ Shows(Section(out_file, 3), NoWarnings) <=> Qualifying(df) = {}
          /\ Shows(Section(out_file, 4), NoBreaches) <=> Violations(df) = {}
          /\ \A n \in 1..4 :
                Shows(Section(out_file, n),
                      << NoSpeed, NoSummary, NoWarnings, NoBreaches >>[n])
                <=> Entries(Section(out_file, n)) = <<>>
    /\ (pc = "done" /\ file.parseable /\ file.rows = <<>> /\ HeaderLacks = {}) =>
          /\ Succeeded
          /\ Shows(Section(out_file, 1), NoSpeed)
          /\ Shows(Section(out_file, 2), NoSummary)
          /\ Shows(Section(out_file, 3), NoWarnings)
          /\ Shows(Section(out_file, 4), NoBreaches)

\* A header-only CSV, run to the end.
C10_Witness ==
    /\ Succeeded
    /\ file.rows = <<>>
    /\ Len(out_file) = 16

====
